---- MODULE Spec2Model ----
(***************************************************************************)
(* Model of journal_transporter.transfer.transfer_handler.TransferHandler: *)
(* the run metadata file, the three stage operations (fetch_indexes,       *)
(* fetch_data, push_data), the structure walker (_index, _fetch, _push)    *)
(* with its handlers, and the workspace files they write.                  *)
(*                                                                         *)
(* A stage operation is a sequence of steps: the Begin step (gate and the  *)
(* <stage>_started write), one step per visited node or item (the whole    *)
(* try block of the walker for it), and the Finish step (the               *)
(* <stage>_finished write).  The Python call stack of the recursive walker *)
(* is the variable worklist: the tasks still to run, in execution order.   *)
(*                                                                         *)
(* Spec runs the stage operations in any order; SpecCli runs them as the   *)
(* transfer command of cli.py invokes them; SpecFk applies the foreign-key *)
(* resolver at the push of a role on workspaces of any directory layout;   *)
(* SpecWalk runs push_data on the fetched workspace of a journal with two  *)
(* articles; SpecFiles pushes a file and its parent file in either order   *)
(* of the files index; SpecLinked runs INDEX and FETCH on a source whose   *)
(* journal has a cover_file; SpecKilled runs fetch_indexes on the          *)
(* workspace of an INDEX run killed inside _index_roles.                   *)
(***************************************************************************)
EXTENDS Integers, Sequences, FiniteSets, TLC

\* ---------------------------------------------------------------- bounds
MaxClock == 8        \* last value of the logical clock datetime.now() may return
MaxErrors == 1       \* failing requests, declined POSTs and interrupts in one behaviour
MaxNs == 2           \* distinct values uuid.uuid1() may return on one workspace

Namespaces == 1..MaxNs

\* ------------------------------------------------------- records and keys
\* A source_record_key "<type>:<pk>" is the pair <<type, pk>>.
NoKey == <<"", 0>>
\* The uuid of a record that has none.
NoUuid == <<0, NoKey>>
\* A nested foreign reference (an object under a foreign-key field); NoRef: the field is absent.
NoRef == [source_record_key |-> NoKey, uuid |-> NoUuid, target_record_key |-> NoKey]
\* A resource; NoRec is Python's None.  cover_file is the url of the object under the field
\* ("" when the resource has no such field); an absent name or cover_file_filename is "".
NoRec == [source_record_key |-> NoKey, uuid |-> NoUuid, target_record_key |-> NoKey, fk |-> NoRef,
          parent_source_record_key |-> NoKey, parent_target_record_key |-> NoKey,
          name |-> "", cover_file |-> "", cover_file_filename |-> ""]

\* uuid5(self.uuid, key): injective in (namespace, key).
Uuid5(ns, key) == <<ns, key>>

\* A slip in __assign_uuids: the values of an object are not descended into.
AssignUuidsRefShallow(ns, r) == r

\* __assign_uuids on a nested object.
AssignUuidsRef(ns, r) ==
    IF r.source_record_key # NoKey THEN [r EXCEPT !.uuid = Uuid5(ns, r.source_record_key)] ELSE r

\* A slip in __assign_uuids: the namespace is not the run's.
AssignUuidsWrongNs(ns, d) ==
    LET top == IF d.source_record_key # NoKey
               THEN [d EXCEPT !.uuid = Uuid5(0, d.source_record_key)] ELSE d
    IN  [top EXCEPT !.fk = AssignUuidsRef(ns, top.fk)]

\* __assign_uuids on an object: uuid where there is a source_record_key, then its values.
AssignUuids(ns, d) ==
    LET top == IF d.source_record_key # NoKey
               THEN [d EXCEPT !.uuid = Uuid5(ns, d.source_record_key)] ELSE d
    IN  [top EXCEPT !.fk = AssignUuidsRef(ns, top.fk)]

\* __assign_uuids on a list.
AssignUuidsList(ns, l) == [i \in DOMAIN l |-> AssignUuids(ns, l[i])]

\* Python's order of the strings "<type>:<pk>" (type names alphabetically, one-digit pks).
TypeRank(t) == CASE t = "articles" -> 1 [] t = "files" -> 2 [] t = "journals" -> 3
                 [] t = "roles" -> 4 [] t = "users" -> 5 [] OTHER -> 0
KeyLess(a, b) == \/ TypeRank(a[1]) < TypeRank(b[1])
                 \/ a[1] = b[1] /\ a[2] < b[2]

RECURSIVE InsertSorted(_, _)
InsertSorted(s, x) ==
    IF s = <<>> THEN <<x>>
    ELSE IF KeyLess(x.source_record_key, Head(s).source_record_key)
         THEN <<x>> \o s
         ELSE <<Head(s)>> \o InsertSorted(Tail(s), x)

RECURSIVE SortedBySrk(_)
\* sorted(content, key=lambda d: d["source_record_key"]) (stable).
SortedBySrk(l) ==
    IF l = <<>> THEN <<>>
    ELSE InsertSorted(SortedBySrk(SubSeq(l, 1, Len(l) - 1)), l[Len(l)])

\* ---------------------------------------------------------- STRUCTURE
\* The part of STRUCTURE the model walks: users; journals with roles and articles; articles
\* with files.
TopLevel == <<"users", "journals">>
Children(t) == CASE t = "journals" -> <<"roles", "articles">>
                 [] t = "articles" -> <<"files">>
                 [] OTHER -> <<>>
\* A slip in _index: the test `if config is False: continue` is missing.
IndexDisabledNever(t) == FALSE

\* definition.get("index") is False
IndexDisabled(t) == t = "users"
\* the node's foreign_keys name the resource "users" (roles.user, articles.creator)
HasUserFk(t) == t \in {"roles", "articles"}
\* the node's fetch handler is _extract_from_index
ExtractsFromIndex(t) == t = "roles"
\* the node's fetch handler is _fetch_files and its push handler _push_files
HandlesFiles(t) == t = "files"

\* ------------------------------------------------------ source and target
VARIABLES
    source_role_user,       \* the source server's content: the pk of the user the roles
                            \* reference, 0 when the roles carry no user
    source_journal_cover    \* and whether the journal's detail carries a cover_file

source == <<source_role_user, source_journal_cover>>

\* The contents of the source server the model runs against.
RoleUsers == {0, 2}

\* A resource as the source server sends it (no uuid, no target key).
Wire(type, pk, userpk) ==
    [NoRec EXCEPT !.source_record_key = <<type, pk>>,
                  !.fk = IF userpk = 0 THEN NoRef
                         ELSE [NoRef EXCEPT !.source_record_key = <<"users", userpk>>]]

\* A file's metadata as the source sends it in the files index; parentpk 0: no parent file.
WireFile(pk, parentpk) ==
    [Wire("files", pk, 0) EXCEPT
        !.parent_source_record_key = IF parentpk = 0 THEN NoKey ELSE <<"files", parentpk>>]

\* GET <url>/ : the index of a type, in the server's order.
SourceIndex(type) ==
    CASE type = "journals" -> <<Wire("journals", 1, 0)>>
      [] type = "roles"    -> <<Wire("roles", 1, source_role_user)>>
      [] type = "articles" -> <<Wire("articles", 1, 1)>>
      [] type = "files"    -> <<WireFile(2, 1), WireFile(1, 0)>>
      [] OTHER             -> <<>>

\* GET <url>/<source_pk>/ : the detail of one record.
SourceDetail(type, key) ==
    IF type = "articles" THEN Wire("articles", key[2], 1)
    ELSE IF type = "journals" /\ source_journal_cover
         THEN [Wire(type, key[2], 0) EXCEPT !.name = "journal", !.cover_file = "url"]
         ELSE Wire(type, key[2], 0)

\* The source_record_key in the target's answer to a POST that created a record.
TargetOffset == 10
TargetKey(type, key) == <<type, key[2] + TargetOffset>>

\* ------------------------------------------------------------- metadata
MetaKeys == {"transaction_id", "initiated", "index_started", "index_finished",
             "fetch_started", "fetch_finished", "push_started", "push_finished",
             "pushfinished"}
\* A key with value 0 is absent.
NoMeta == [k \in MetaKeys |-> 0]

VARIABLES
    metadata_file,   \* <data_dir>/current/index.json: [exists, data]
    metadata,        \* self.metadata
    self_uuid,       \* self.uuid, the run namespace
    resume,          \* self.resume
    clock,           \* the next value of datetime.now()
    stage,           \* the stage operation in progress, or "idle"
    call,            \* the last operation called on the coordinator
    result,          \* how the last call of a stage operation ended
    worklist,        \* the walker's pending tasks, in execution order
    tdirs,           \* type directories <<parent path, type>>
    idirs,           \* instance directories <<parent path, type, uuid>>
    index_files,     \* type directory -> index.json [blank, list]
    detail_files,    \* instance directory -> <singular>.json [blank, rec]
    binaries,        \* instance directories that hold a downloaded file, and the linked
                     \* files downloaded <<parent path, type, uuid, file name>>
    requests,        \* the requests issued by the last step
    errors,          \* failed requests, declined POSTs and interrupts so far
    declined,        \* a POST of the stage operation in progress or last run was answered
                     \* 2xx without a source_record_key
    reported,        \* the calls of the observer's report_error in the stage operation in
                     \* progress or last run
    cli_flags,       \* the options of the transfer command: [index_only, fetch_only, push_only]
    transfer_methods \* the method names the transfer command has still to invoke

vars == <<metadata_file, metadata, self_uuid, resume, clock, stage, call, result, worklist,
          tdirs, idirs, index_files, detail_files, binaries, requests, errors, reported,
          declined, source_role_user, source_journal_cover, cli_flags, transfer_methods>>

cli == <<cli_flags, transfer_methods>>

workspace == <<tdirs, idirs, index_files, detail_files, binaries>>

\* A slip in initialize_data_directory: the namespace is generated on every construction.
InitializeAlwaysFresh(file, fresh, now) ==
    [file |-> [exists |-> TRUE,
               data |-> [file.data EXCEPT !["transaction_id"] = fresh,
                                          !["initiated"] = IF file.exists THEN @ ELSE now]],
     uuid |-> fresh]

\* initialize_data_directory: parse the metadata file, or create it with a new namespace.
InitializeDataDirectory(file, fresh, now) ==
    IF file.exists
    THEN [file |-> file, uuid |-> file.data["transaction_id"]]
    ELSE [file |-> [exists |-> TRUE,
                    data |-> [NoMeta EXCEPT !["transaction_id"] = fresh,
                                            !["initiated"] = now]],
          uuid |-> fresh]

\* A slip in write_to_meta_file: the existing content is not merged in.
WriteToMetaFileNoMerge(existing, data) ==
    [k \in MetaKeys |-> IF k \in DOMAIN data THEN data[k] ELSE 0]

\* write_to_meta_file: {**existing_content, **data}
WriteToMetaFile(existing, data) ==
    [k \in MetaKeys |-> IF k \in DOMAIN data THEN data[k] ELSE existing[k]]

is_index_finished == metadata["index_finished"] # 0
is_fetch_finished == metadata["fetch_finished"] # 0
is_push_finished == metadata["push_finished"] # 0

can_index == TRUE
\* A slip in can_fetch: the gate is open.
can_fetch_open == TRUE
can_fetch == is_index_finished
can_push == is_fetch_finished

\* current_stage(): the first stage started and not finished, "none" if there is none.
current_stage ==
    IF metadata["index_started"] # 0 /\ metadata["index_finished"] = 0 THEN "index"
    ELSE IF metadata["fetch_started"] # 0 /\ metadata["fetch_finished"] = 0 THEN "fetch"
    ELSE IF metadata["push_started"] # 0 /\ metadata["push_finished"] = 0 THEN "push"
    ELSE "none"

\* ------------------------------------------------------------- workspace
\* _parent_path_segments(parents, "uuid"): a parent chain is a sequence of <<type, record>>.
ParentPathSegments(parents) == [i \in DOMAIN parents |-> <<parents[i][1], parents[i][2].uuid>>]
\* _build_path(parents, resource_name)
BuildPath(parents, type) == <<ParentPathSegments(parents), type>>
\* _build_path(parents, resource_name, stub)
BuildItemPath(parents, type, stub) == <<ParentPathSegments(parents), type, stub.uuid>>

BlankIndex == [blank |-> TRUE, list |-> <<>>]
BlankDetail == [blank |-> TRUE, rec |-> NoRec]
IndexOf(l) == [blank |-> FALSE, list |-> l]
DetailOf(r) == [blank |-> FALSE, rec |-> r]

\* f with the file at path p replaced (or created).
WriteFile(f, p, c) == [q \in (DOMAIN f) \cup {p} |-> IF q = p THEN c ELSE f[q]]
\* file.touch(): an existing file keeps its content.
Touch(f, p, blankfile) == IF p \in DOMAIN f THEN f ELSE WriteFile(f, p, blankfile)

\* The tasks of the walker.
TypeTask(t, parents) == [kind |-> "type", type |-> t, parents |-> parents, stub |-> NoRec,
                         prev |-> NoRec]
MkdirTask(t, parents, thing) == [kind |-> "mkdir", type |-> t, parents |-> parents,
                                 stub |-> thing, prev |-> NoRec]
ItemTask(t, parents, stub) == [kind |-> "item", type |-> t, parents |-> parents,
                               stub |-> stub, prev |-> NoRec]

TopLevelTasks == [i \in DOMAIN TopLevel |-> TypeTask(TopLevel[i], <<>>)]

\* The recursion of a walker into the children of one record.
ChildTasks(t, parents, rec) ==
    [i \in DOMAIN Children(t) |-> TypeTask(Children(t)[i], Append(parents, <<t, rec>>))]

\* A slip in _index: the walker recurses into the first child type only.
IndexChildTasksFirstChild(t, parents, response) ==
    IF Len(Children(t)) = 0 THEN <<>>
    ELSE [j \in 1..(Len(response) * 2) |->
            LET thing == response[((j - 1) \div 2) + 1]
            IN  IF (j - 1) % 2 = 0 THEN MkdirTask(t, parents, thing)
                ELSE TypeTask(Children(t)[1], Append(parents, <<t, thing>>))]

\* _index, lines 598-608: for each thing of the response, mkdir and recurse into each child.
IndexChildTasks(t, parents, response) ==
    LET c == Len(Children(t))
    IN  IF c = 0 THEN <<>>
        ELSE [j \in 1..(Len(response) * (1 + c)) |->
                LET thing == response[((j - 1) \div (1 + c)) + 1]
                    off == (j - 1) % (1 + c)
                IN  IF off = 0 THEN MkdirTask(t, parents, thing)
                    ELSE TypeTask(Children(t)[off], Append(parents, <<t, thing>>))]

\* The orders list(set(keys)) may produce.
Orders(keys) == {o \in [1..Cardinality(keys) -> keys] : \A i, j \in DOMAIN o : i # j => o[i] # o[j]}

UsersDir == BuildPath(<<>>, "users")

Get(type, key) == [method |-> "GET", type |-> type, key |-> key]
\* A POST of the payload data to url; response is the source_record_key of the target's
\* answer (NoKey: a 2xx answer without one, or a failure).
Post(url, type, data, ok, response) ==
    [method |-> "POST", url |-> url, type |-> type, key |-> data.source_record_key,
     data |-> data, ok |-> ok, response |-> response]

\* Python's None where a primary key is expected.
NoPk == 0

\* A slip in _parent_path_segments: the source primary key is used for "target_pk".
TargetPkOfSource(object_dict) == object_dict.source_record_key[2]

\* __target_pk: the last segment of target_record_key, None when the record has none.
TargetPk(object_dict) ==
    IF object_dict.target_record_key # NoKey THEN object_dict.target_record_key[2] ELSE NoPk

\* _build_url(parents, resource_name, pk_type="target"): for each parent its type name and
\* target primary key, then the resource name.
BuildUrl(parents, resource_name) ==
    <<[i \in DOMAIN parents |-> <<parents[i][1], TargetPk(parents[i][2])>>], resource_name>>

\* The transfer command run without --index-only, --fetch-only or --push-only.
NoFlags == [index_only |-> FALSE, fetch_only |-> FALSE, push_only |-> FALSE]

\* ------------------------------------------------------------------ Init
\* The coordinator constructed on a prepared, empty workspace; uuid.uuid1() returns its
\* first value (which one it is makes no difference: Uuid5 only compares namespaces).
InitOn(u, cover) ==
    \E r \in BOOLEAN :
      LET init == InitializeDataDirectory([exists |-> FALSE, data |-> NoMeta], 1, 1)
      IN  /\ metadata_file = init.file
          /\ metadata = init.file.data
          /\ self_uuid = init.uuid
          /\ resume = r
          /\ clock = 2
          /\ stage = "idle"
          /\ call = "__init__"
          /\ result = "none"
          /\ worklist = <<>>
          /\ tdirs = {}
          /\ idirs = {}
          /\ index_files = <<>>
          /\ detail_files = <<>>
          /\ binaries = {}
          /\ requests = <<>>
          /\ errors = 0
          /\ reported = 0
          /\ declined = FALSE
          /\ source_role_user = u
          /\ source_journal_cover = cover
          /\ cli_flags = NoFlags
          /\ transfer_methods = <<>>

\* The source's journal has no cover_file.
Init == \E u \in RoleUsers : InitOn(u, FALSE)

\* __init__ on the existing workspace (a later run of the program), with any resume option;
\* fresh is the value uuid.uuid1() would return if it were called.
Construct ==
    /\ stage = "idle"
    /\ \E fresh \in Namespaces, r \in BOOLEAN :
         LET init == InitializeDataDirectory(metadata_file, fresh, clock)
         IN  /\ metadata_file' = init.file
             /\ metadata' = init.file.data
             /\ self_uuid' = init.uuid
             /\ resume' = r
    /\ call' = "__init__"
    /\ requests' = <<>>
    /\ UNCHANGED <<clock, stage, result, worklist, workspace, errors, reported, declined,
                   source, cli>>

\* The write of one stage timestamp: write_to_meta_file({key: datetime.now().isoformat()}).
WriteStamp(key) ==
    LET merged == WriteToMetaFile(metadata_file.data, (key :> clock))
    IN  /\ metadata' = merged
        /\ metadata_file' = [metadata_file EXCEPT !.data = merged]
        /\ clock' = clock + 1

\* A stage operation called: the gate, then the <stage>_started write.  (The caller says
\* what becomes of the transfer command's variables.)
Begin(name, api, gate, key) ==
    /\ stage = "idle"
    /\ clock + 1 <= MaxClock
    /\ call' = api
    /\ requests' = <<>>
    /\ IF gate
       THEN /\ WriteStamp(key)
            /\ stage' = name
            /\ result' = "running"
            /\ worklist' = TopLevelTasks
            /\ reported' = 0
            /\ declined' = FALSE
       ELSE /\ result' = "AssertionError"
            /\ UNCHANGED <<metadata, metadata_file, clock, stage, worklist, reported, declined>>
    /\ UNCHANGED <<self_uuid, resume, workspace, errors, source>>

\* The walker returned: the <stage>_finished write.
Finish(name, key) ==
    /\ stage = name
    /\ worklist = <<>>
    /\ WriteStamp(key)
    /\ stage' = "idle"
    /\ result' = "returned"
    /\ requests' = <<>>
    /\ UNCHANGED <<self_uuid, resume, call, worklist, workspace, errors, reported, declined,
                   source, cli>>

\* fetch_indexes, lines 318-320 and 322
FetchIndexesBegin ==
    Begin("index", "fetch_indexes", can_index, "index_started") /\ UNCHANGED cli
FetchIndexesFinish == Finish("index", "index_finished")

\* __handle_error with the observer's answer, for the task at the head of the worklist:
\* "continue" goes on with next, "abort" raises AbortError out of the stage operation.
\* cost is 1 when a request of the step failed, 0 when the handler raised by itself.
HandleError(action, next, cost) ==
    /\ errors + cost <= MaxErrors
    /\ errors' = errors + cost
    /\ reported' = reported + 1
    /\ IF action = "abort"
       THEN /\ stage' = "idle"
            /\ result' = "AbortError"
            /\ worklist' = <<>>
       ELSE /\ worklist' = next
            /\ UNCHANGED <<stage, result>>

\* An exception the walker does not catch leaves the stage operation.
Raise ==
    /\ stage' = "idle"
    /\ result' = "Error"
    /\ worklist' = <<>>

\* The process is killed (SIGINT) in the middle of a stage operation.
Interrupt ==
    /\ stage # "idle"
    /\ errors < MaxErrors
    /\ errors' = errors + 1
    /\ stage' = "idle"
    /\ result' = "killed"
    /\ worklist' = <<>>
    /\ requests' = <<>>
    /\ UNCHANGED <<metadata_file, metadata, self_uuid, resume, call, clock, workspace, reported,
                   declined, source, cli>>

\* ----------------------------------------------------------------- INDEX
\* _index, lines 601-603: thing_path.mkdir(exist_ok=True)
IndexMkdir ==
    /\ stage = "index"
    /\ worklist # <<>>
    /\ Head(worklist).kind = "mkdir"
    /\ LET task == Head(worklist)
       IN  idirs' = idirs \cup {BuildItemPath(task.parents, task.type, task.stub)}
    /\ worklist' = Tail(worklist)
    /\ UNCHANGED <<metadata_file, metadata, self_uuid, resume, call, clock, stage, result,
                   tdirs, index_files, detail_files, binaries, errors, reported, declined,
                   source, cli>>
    /\ requests' = <<>>

\* _index_roles, lines 665-680: the users index rebuilt from the old keys and the roles' users.
MergeUsersIndex(files, order) ==
    WriteFile(files, UsersDir,
              IndexOf([i \in DOMAIN order |->
                         [NoRec EXCEPT !.source_record_key = order[i],
                                       !.uuid = Uuid5(self_uuid, order[i])]]))

\* A slip in _index_roles: the keys of the existing users index are dropped.
AllUserKeysNewOnly(files, roles_index) ==
    {roles_index[i].fk.source_record_key :
       i \in {j \in DOMAIN roles_index : roles_index[j].fk # NoRef}}

\* The keys _index_roles puts in the users index.
AllUserKeys(files, roles_index) ==
    (IF UsersDir \in DOMAIN files
     THEN {files[UsersDir].list[i].source_record_key : i \in DOMAIN files[UsersDir].list}
     ELSE {})
    \cup {roles_index[i].fk.source_record_key :
            i \in {j \in DOMAIN roles_index : roles_index[j].fk # NoRef}}

\* _index for one node (lines 561-610) with its handler: _index_journals or _fetch_index
\* (the same but for the paths parameter), or _index_roles.
IndexType(outcome, action) ==
    /\ stage = "index"
    /\ worklist # <<>>
    /\ Head(worklist).kind = "type"
    /\ LET task == Head(worklist)
           rest == Tail(worklist)
           t == task.type
           path == BuildPath(task.parents, t)
           reusable == /\ resume
                       /\ path \in DOMAIN index_files
                       /\ ~index_files[path].blank
                       /\ index_files[path].list # <<>>
           content == SortedBySrk(AssignUuidsList(self_uuid, SourceIndex(t)))
           fetched == WriteFile(index_files, path, IndexOf(content))
           \* _index_roles, lines 669-671: an empty users/index.json loads as None, and
           \* the comprehension over it raises
           usersBlank == /\ t = "roles"
                         /\ UsersDir \in DOMAIN index_files
                         /\ index_files[UsersDir].blank
       IN  IF IndexDisabled(t)
           THEN /\ outcome = "skip"
                /\ worklist' = rest
                /\ requests' = <<>>
                /\ UNCHANGED <<stage, result, tdirs, index_files, errors, reported>>
           ELSE IF reusable
           THEN /\ outcome = "skip"
                /\ worklist' = IndexChildTasks(t, task.parents, index_files[path].list) \o rest
                /\ requests' = <<>>
                /\ UNCHANGED <<stage, result, tdirs, index_files, errors, reported>>
           ELSE /\ tdirs' = tdirs \cup {path} \cup (IF t = "roles" /\ outcome = "ok"
                                                    THEN {UsersDir} ELSE {})
                /\ requests' = <<Get(t, NoKey)>>
                /\ \/ /\ outcome = "ok"
                      /\ ~usersBlank
                      /\ IF t = "roles"
                         THEN \E order \in Orders(AllUserKeys(fetched, content)) :
                                index_files' = MergeUsersIndex(fetched, order)
                         ELSE index_files' = fetched
                      /\ worklist' = IndexChildTasks(t, task.parents, content) \o rest
                      /\ UNCHANGED <<stage, result, errors, reported>>
                   \/ /\ outcome = "ok"
                      /\ usersBlank
                      /\ index_files' = fetched
                      /\ HandleError(action, rest, 0)
                   \/ /\ outcome = "fail"
                      /\ index_files' = Touch(index_files, path, BlankIndex)
                      /\ HandleError(action, rest, 1)
    /\ UNCHANGED <<metadata_file, metadata, self_uuid, resume, call, clock, idirs, detail_files,
                   binaries, declined, source, cli>>

\* ----------------------------------------------------------------- FETCH
\* fetch_data, lines 345-347 and 349
FetchDataBegin ==
    Begin("fetch", "fetch_data", can_fetch, "fetch_started") /\ UNCHANGED cli
FetchDataFinish == Finish("fetch", "fetch_finished")

\* The items of an index as tasks, in the order of the file.
ItemTasks(t, parents, stubs) == [i \in DOMAIN stubs |-> ItemTask(t, parents, stubs[i])]

\* _fetch for one node, lines 725-732: load the index; an empty one returns from this call
\* of _fetch, which at the top level walks all of STRUCTURE and below it one child.
FetchType ==
    /\ stage = "fetch"
    /\ worklist # <<>>
    /\ Head(worklist).kind = "type"
    /\ LET task == Head(worklist)
           rest == Tail(worklist)
           path == BuildPath(task.parents, task.type)
       IN  IF path \notin DOMAIN index_files
           THEN Raise
           ELSE /\ worklist' =
                     IF index_files[path].blank \/ index_files[path].list = <<>>
                     THEN (IF task.parents = <<>> THEN <<>> ELSE rest)
                     ELSE ItemTasks(task.type, task.parents, index_files[path].list) \o rest
                /\ UNCHANGED <<stage, result>>
    /\ requests' = <<>>
    /\ UNCHANGED <<metadata_file, metadata, self_uuid, resume, call, clock, workspace, errors,
                   reported, declined, source, cli>>

\* The directory of a user, <data_directory>/users/<uuid>.
UserDir(uuid) == <<<<>>, "users", uuid>>

\* The file a linked-file field of the item is downloaded to: <item directory>/<field>.
LinkedFile(ipath, key) == <<ipath[1], ipath[2], ipath[3], key>>

\* _fetch for one stub, lines 732-753, with the handler (_fetch_data, _extract_from_index
\* or _fetch_files) and the default postprocessor (_fetch_linked_files, then
\* _ensure_user_fks).  get, fileget and userget are the outcomes of the handler's GET, of
\* the GET of the linked file and of the standalone user GET, action the observer's answer
\* to an error.
FetchItem(get, fileget, userget, action) ==
    /\ stage = "fetch"
    /\ worklist # <<>>
    /\ Head(worklist).kind = "item"
    /\ LET task == Head(worklist)
           rest == Tail(worklist)
           t == task.type
           stub == task.stub
           ipath == BuildItemPath(task.parents, t, stub)
           extract == ExtractsFromIndex(t)
           files == HandlesFiles(t)
           \* _fetch_files reuses file.json when the directory has two entries
           reuse == /\ resume
                    /\ ipath \in DOMAIN detail_files
                    /\ extract => ~detail_files[ipath].blank
                    /\ files => (~detail_files[ipath].blank /\ ipath \in binaries)
           doGet == ~extract /\ ~reuse
           hfail == doGet /\ get = "fail"
           fetched == AssignUuids(self_uuid, SourceDetail(t, stub.source_record_key))
           response == IF reuse THEN detail_files[ipath].rec
                       ELSE IF hfail THEN NoRec
                       ELSE IF extract \/ files THEN stub
                       ELSE fetched
           d1 == IF reuse THEN detail_files
                 ELSE IF extract \/ files THEN WriteFile(detail_files, ipath, DetailOf(stub))
                 ELSE IF hfail THEN Touch(detail_files, ipath, BlankDetail)
                 ELSE WriteFile(detail_files, ipath, DetailOf(response))
           r1 == IF doGet THEN <<Get(t, stub.source_record_key)>> ELSE <<>>
           \* _fetch_linked_files, lines 824-836: the file goes to <path>/<key>, and the
           \* name is set in the handler's result only
           doFileGet == /\ response # NoRec
                        /\ response.cover_file # ""
                        /\ ~(resume /\ LinkedFile(ipath, "cover_file") \in binaries)
           lfail == doFileGet /\ fileget = "fail"
           named == IF doFileGet /\ ~lfail
                    THEN [response EXCEPT !.cover_file_filename = response.name]
                    ELSE response
           r2 == IF doFileGet THEN Append(r1, Get("cover_file", stub.source_record_key))
                 ELSE r1
           \* _ensure_user_fks, lines 847-869
           fkd == response.fk
           ensure == /\ response # NoRec
                     /\ ~lfail
                     /\ HasUserFk(t)
                     /\ fkd # NoRef
                     /\ UserDir(fkd.uuid) \notin idirs
           mkdirFails == UsersDir \notin tdirs
           doUserGet == ensure /\ ~mkdirFails
           indexBad == IF UsersDir \in DOMAIN index_files THEN index_files[UsersDir].blank
                       ELSE TRUE
           pfail == ensure /\ (mkdirFails \/ userget = "fail" \/ indexBad)
           user == AssignUuids(self_uuid, SourceDetail("users", fkd.source_record_key))
           d2 == IF ~doUserGet THEN d1
                 ELSE IF userget = "fail" THEN Touch(d1, UserDir(fkd.uuid), BlankDetail)
                 ELSE WriteFile(d1, UserDir(fkd.uuid), DetailOf(user))
           appended == Append(index_files[UsersDir].list,
                              [NoRec EXCEPT !.source_record_key = fkd.source_record_key,
                                            !.uuid = fkd.uuid])
           next == (IF response # NoRec THEN ChildTasks(t, task.parents, named) ELSE <<>>)
                   \o rest
       IN  /\ ~doGet => get = "ok"
           /\ ~doFileGet => fileget = "ok"
           /\ ~doUserGet => userget = "ok"
           /\ ~(hfail \/ lfail \/ pfail) => action = "continue"
           /\ idirs' = idirs \cup {ipath} \cup (IF doUserGet THEN {UserDir(fkd.uuid)} ELSE {})
           /\ detail_files' = d2
           /\ binaries' = IF files /\ doGet /\ ~hfail THEN binaries \cup {ipath}
                          ELSE IF doFileGet /\ ~lfail
                               THEN binaries \cup {LinkedFile(ipath, "cover_file")}
                               ELSE binaries
           /\ requests' = IF doUserGet THEN Append(r2, Get("users", fkd.source_record_key))
                          ELSE r2
           /\ index_files' = IF ensure /\ ~pfail
                             THEN WriteFile(index_files, UsersDir, IndexOf(appended))
                             ELSE index_files
           /\ IF hfail \/ lfail \/ pfail
              THEN HandleError(action, next,
                               IF hfail \/ lfail \/ (doUserGet /\ userget = "fail")
                               THEN 1 ELSE 0)
              ELSE /\ worklist' = next
                   /\ UNCHANGED <<stage, result, errors, reported>>
    /\ UNCHANGED <<metadata_file, metadata, self_uuid, resume, call, clock, tdirs, declined,
                   source, cli>>

\* ------------------------------------------------------------------ PUSH
\* push_data, lines 365-367
PushDataBegin ==
    Begin("push", "push_data", can_push, "push_started") /\ UNCHANGED cli
\* push_data, line 369: the key written is f"{self.STAGE_PUSHING}finished"
PushDataFinish == Finish("push", "pushfinished")

\* _push for one node, lines 925-932: load the index; an empty one returns from this call
\* of _push; len() of a blank file's None raises.
PushType ==
    /\ stage = "push"
    /\ worklist # <<>>
    /\ Head(worklist).kind = "type"
    /\ LET task == Head(worklist)
           rest == Tail(worklist)
           path == BuildPath(task.parents, task.type)
       IN  IF (IF path \in DOMAIN index_files THEN index_files[path].blank ELSE TRUE)
           THEN Raise
           ELSE /\ worklist' =
                     IF index_files[path].list = <<>>
                     THEN (IF task.parents = <<>> THEN <<>> ELSE rest)
                     ELSE ItemTasks(task.type, task.parents, index_files[path].list) \o rest
                /\ UNCHANGED <<stage, result>>
    /\ requests' = <<>>
    /\ UNCHANGED <<metadata_file, metadata, self_uuid, resume, call, clock, workspace, errors,
                   reported, declined, source, cli>>

NoPath == <<<<>>, "", NoUuid>>

\* A slip in _search_for_fk: a directory named for the related type anywhere in the
\* workspace ends the walk at the root.
SearchForFkAnywhere(dirs, parents, fk_resource_name, fk_uuid, path) ==
    IF \E d \in dirs : d[2] = fk_resource_name
    THEN <<path, fk_resource_name, fk_uuid>>
    ELSE NoPath

RECURSIVE SearchSteps(_, _, _, _)
\* The calls of _search_for_fk one search makes: the first, and one more for each ancestor
\* it consumes.
SearchSteps(dirs, parents, fk_resource_name, path) ==
    IF (\E d \in dirs : d[1] = path /\ d[2] = fk_resource_name) \/ parents = <<>>
    THEN 1
    ELSE 1 + SearchSteps(dirs, Tail(parents), fk_resource_name,
                         Append(path, <<Head(parents)[1], Head(parents)[2].uuid>>))

RECURSIVE SearchForFk(_, _, _, _, _)
\* _search_for_fk: the first of the root and the ancestors' instance directories that has a
\* subdirectory named for the related type; NoPath when the walk raises (IndexError on
\* list(parents_clone.items())[0] once the parents are used up).
SearchForFk(dirs, parents, fk_resource_name, fk_uuid, path) ==
    IF \E d \in dirs : d[1] = path /\ d[2] = fk_resource_name
    THEN <<path, fk_resource_name, fk_uuid>>
    ELSE IF parents = <<>>
         THEN NoPath
         ELSE SearchForFk(dirs, Tail(parents), fk_resource_name, fk_uuid,
                          Append(path, <<Head(parents)[1], Head(parents)[2].uuid>>))

\* A slip in _fetch_foreign_keys: the related record's source key is copied.
ResolveForeignKeySourceKey(data, parents) ==
    LET fk_file_path == SearchForFk(tdirs, parents, "users", data.fk.uuid, <<>>)
    IN  IF data.fk # NoRef /\ data.fk.uuid # NoUuid
           /\ fk_file_path \in DOMAIN detail_files
           /\ ~detail_files[fk_file_path].blank
        THEN [data EXCEPT !.fk.target_record_key =
                              detail_files[fk_file_path].rec.source_record_key]
        ELSE data

\* _fetch_foreign_keys, lines 982-992: the related record's target_record_key copied into
\* the reference, when the related detail file exists and is not blank.
ResolveForeignKey(data, parents) ==
    LET fk_file_path == SearchForFk(tdirs, parents, "users", data.fk.uuid, <<>>)
    IN  IF data.fk # NoRef /\ data.fk.uuid # NoUuid
           /\ fk_file_path \in DOMAIN detail_files
           /\ ~detail_files[fk_file_path].blank
        THEN [data EXCEPT !.fk.target_record_key =
                              detail_files[fk_file_path].rec.target_record_key]
        ELSE data

\* A slip in the push handlers: the test of the response's source_record_key is missing.
HasKeyAlways(response) == TRUE

\* _push_data, line 1082, and _push_files, line 1112:
\* `response and response.get("source_record_key")`
HasKey(response) == response # NoKey

\* _push_data, lines 1082-1084: the response's source_record_key, when it has one, is
\* written into the detail as target_record_key.
WriteBack(data, response) ==
    IF HasKey(response) THEN [data EXCEPT !.target_record_key = response] ELSE data

\* _push_files, lines 1098-1104: the parent file's target_record_key copied into the
\* metadata as parent_target_record_key.
WithParentTargetKey(data, parent) ==
    [data EXCEPT !.parent_target_record_key = parent.target_record_key]

\* _push for one stub, lines 932-953, with the preprocessor (_fetch_foreign_keys) and the
\* handler (_push_data or _push_files).  post is the outcome of the POST: "created" (2xx
\* with a source_record_key), "noop" (2xx without), "fail"; action the observer's answer.
PushItem(post, action) ==
    /\ stage = "push"
    /\ worklist # <<>>
    /\ Head(worklist).kind = "item"
    /\ LET task == Head(worklist)
           rest == Tail(worklist)
           t == task.type
           stub == task.stub
           ipath == BuildItemPath(task.parents, t, stub)
           files == HandlesFiles(t)
           \* _build_url(parents, resource_name, pk_type="target"): a parent without
           \* target_record_key gives a None segment and join raises
           url == BuildUrl(task.parents, t)
           urlFails == \E i \in DOMAIN url[1] : url[1][i][2] = NoPk
           exists == ipath \in DOMAIN detail_files
           \* __load_file_data gives None for an empty file
           isNone == IF exists THEN detail_files[ipath].blank ELSE TRUE
           loaded == IF exists THEN detail_files[ipath].rec ELSE NoRec
           \* _fetch_foreign_keys: data.get on None raises, and so does _search_for_fk
           \* when no directory of the related type is found
           searchFails == /\ loaded.fk # NoRef
                          /\ loaded.fk.uuid # NoUuid
                          /\ SearchForFk(tdirs, task.parents, "users", loaded.fk.uuid, <<>>)
                                = NoPath
           preFails == HasUserFk(t) /\ (isNone \/ searchFails)
           data == IF HasUserFk(t) /\ ~isNone THEN ResolveForeignKey(loaded, task.parents)
                   ELSE loaded
           skip == ~isNone /\ resume /\ data.target_record_key # NoKey
           \* _push_files: the parent's file.json, and files[0]
           parent_key == data.parent_source_record_key
           parent_file == <<ipath[1], ipath[2], Uuid5(self_uuid, parent_key)>>
           hasParent == files /\ ~isNone /\ parent_key # NoKey
           parentFails == IF hasParent
                          THEN (IF parent_file \in DOMAIN detail_files
                                THEN detail_files[parent_file].blank ELSE TRUE)
                          ELSE FALSE
           noBinary == ipath \notin binaries
           \* the handler raises before any POST: a missing file; None.get(); files[0]
           hraise == IF files THEN isNone \/ (~skip /\ (parentFails \/ noBinary))
                     ELSE ~exists \/ (isNone /\ resume)
           raisedBefore == urlFails \/ preFails \/ hraise
           doPost == ~raisedBefore /\ ~skip
           payload == IF hasParent /\ ~parentFails
                      THEN WithParentTargetKey(data, detail_files[parent_file].rec)
                      ELSE data
           answer == IF post = "created" THEN TargetKey(t, payload.source_record_key) ELSE NoKey
           \* _push_data, line 1083: data["target_record_key"] = ... on None raises
           raisedAfter == doPost /\ isNone /\ HasKey(answer)
           pushed == IF doPost /\ ~isNone THEN WriteBack(payload, answer) ELSE data
           \* _push_files returns its metadata only when it skips
           returned == IF files THEN (IF skip THEN data ELSE NoRec) ELSE pushed
           response == IF raisedBefore \/ raisedAfter THEN task.prev ELSE returned
           siblings == IF rest # <<>> /\ Head(rest).kind = "item" /\ Head(rest).type = t
                          /\ Head(rest).parents = task.parents
                       THEN <<[Head(rest) EXCEPT !.prev = response]>> \o Tail(rest)
                       ELSE rest
           next == (IF response # NoRec THEN ChildTasks(t, task.parents, response) ELSE <<>>)
                   \o siblings
           failed == raisedBefore \/ raisedAfter \/ (doPost /\ post = "fail")
           \* a 2xx answer without a key is drawn from the budget of the failures
           unkind == IF doPost /\ post = "noop" THEN 1 ELSE 0
           preprocessed == IF HasUserFk(t) /\ ~urlFails /\ ~preFails
                           THEN WriteFile(detail_files, ipath, DetailOf(data))
                           ELSE detail_files
       IN  /\ ~doPost => post = "noop"
           /\ ~failed => action = "continue"
           /\ detail_files' = IF doPost /\ ~isNone /\ HasKey(answer)
                              THEN WriteFile(preprocessed, ipath, DetailOf(pushed))
                              ELSE preprocessed
           /\ requests' = IF doPost
                          THEN <<Post(url, t, payload, post # "fail", answer)>>
                          ELSE <<>>
           /\ declined' = (declined \/ (doPost /\ post = "noop"))
           /\ IF failed
              THEN HandleError(action, next, IF doPost /\ post = "fail" THEN 1 ELSE 0)
              ELSE /\ worklist' = next
                   /\ errors + unkind <= MaxErrors
                   /\ errors' = errors + unkind
                   /\ UNCHANGED <<stage, result, reported>>
    /\ UNCHANGED <<metadata_file, metadata, self_uuid, resume, call, clock, tdirs, idirs,
                   index_files, binaries, source, cli>>

Next ==
    \/ Construct
    \/ Interrupt
    \/ FetchIndexesBegin
    \/ FetchIndexesFinish
    \/ IndexMkdir
    \/ \E outcome \in {"skip", "ok", "fail"}, action \in {"continue", "abort"} :
         IndexType(outcome, action)
    \/ FetchDataBegin
    \/ FetchDataFinish
    \/ FetchType
    \/ \E get \in {"ok", "fail"}, fileget \in {"ok", "fail"}, userget \in {"ok", "fail"},
         action \in {"continue", "abort"} :
         FetchItem(get, fileget, userget, action)
    \/ PushDataBegin
    \/ PushDataFinish
    \/ PushType
    \/ \E post \in {"created", "noop", "fail"}, action \in {"continue", "abort"} :
         PushItem(post, action)

Spec == Init /\ [][Next]_vars

\* ------------------------------------------------- the transfer command
Flags == [index_only : BOOLEAN, fetch_only : BOOLEAN, push_only : BOOLEAN]

\* cli.transfer, lines 502-503: more than one of the three options is an error.
TooManyFlags(f) ==
    \/ f.index_only /\ f.fetch_only
    \/ f.index_only /\ f.push_only
    \/ f.fetch_only /\ f.push_only

\* cli.transfer, lines 510-517: the names of the methods to call on the handler.
TransferMethods(f) ==
    (IF f.index_only \/ f.fetch_only THEN <<"fetch_indexes">> ELSE <<>>)
    \o (IF f.fetch_only THEN <<"fetch_data">> ELSE <<>>)
    \o (IF f.push_only THEN <<"push_only">> ELSE <<>>)

\* cli.transfer up to the construction of the handler (lines 493-520): the options are
\* checked, database.prepare empties <data_directory>/current when INDEX is to run, and
\* the handler is constructed with the default resume=False.
Transfer(f, fresh) ==
    /\ stage = "idle"
    /\ transfer_methods = <<>> \/ result \notin {"none", "returned"}
    /\ cli_flags' = f
    /\ IF TooManyFlags(f)
       THEN /\ transfer_methods' = <<>>
            /\ UNCHANGED <<metadata_file, metadata, self_uuid, resume, call, result, workspace>>
       ELSE LET prepare == f.index_only \/ f.fetch_only
                file == IF prepare THEN [exists |-> FALSE, data |-> NoMeta] ELSE metadata_file
                init == InitializeDataDirectory(file, fresh, clock)
            IN  /\ transfer_methods' = TransferMethods(f)
                /\ metadata_file' = init.file
                /\ metadata' = init.file.data
                /\ self_uuid' = init.uuid
                /\ resume' = FALSE
                /\ call' = "__init__"
                /\ result' = "none"
                /\ IF prepare
                   THEN /\ tdirs' = {}
                        /\ idirs' = {}
                        /\ index_files' = <<>>
                        /\ detail_files' = <<>>
                        /\ binaries' = {}
                   ELSE UNCHANGED workspace
    /\ requests' = <<>>
    /\ UNCHANGED <<clock, stage, worklist, errors, reported, declined, source>>

\* cli.transfer, lines 522-524: getattr(handler, method_name) and the call, for the next
\* name of the list; a call that raised has ended the command.
Invoke ==
    /\ transfer_methods # <<>>
    /\ result \in {"none", "returned"}
    /\ LET method_name == Head(transfer_methods)
       IN  CASE method_name = "fetch_indexes" ->
                    Begin("index", "fetch_indexes", can_index, "index_started")
             [] method_name = "fetch_data" ->
                    Begin("fetch", "fetch_data", can_fetch, "fetch_started")
             [] method_name = "push_data" ->
                    Begin("push", "push_data", can_push, "push_started")
             [] OTHER ->
                    /\ stage = "idle"
                    /\ call' = method_name
                    /\ result' = "AttributeError"
                    /\ requests' = <<>>
                    /\ UNCHANGED <<metadata_file, metadata, self_uuid, resume, clock, stage,
                                   worklist, workspace, errors, reported, declined,
                                   source>>
    /\ transfer_methods' = Tail(transfer_methods)
    /\ UNCHANGED cli_flags

\* The program as the transfer command drives it.  No name of transfer_methods is
\* push_data, so the walker of PUSH has no step here.
NextCli ==
    \/ \E f \in Flags, fresh \in Namespaces : Transfer(f, fresh)
    \/ Invoke
    \/ Interrupt
    \/ FetchIndexesFinish
    \/ IndexMkdir
    \/ \E outcome \in {"skip", "ok", "fail"}, action \in {"continue", "abort"} :
         IndexType(outcome, action)
    \/ FetchDataFinish
    \/ FetchType
    \/ \E get \in {"ok", "fail"}, fileget \in {"ok", "fail"}, userget \in {"ok", "fail"},
         action \in {"continue", "abort"} :
         FetchItem(get, fileget, userget, action)

SpecCli == Init /\ [][NextCli]_vars

\* ------------------------------------------- the foreign-key resolver alone
\* The records of the chain the resolver is applied to: a pushed journal, an article below
\* it, and a role of the journal whose detail refers to user 2.
FkJournal ==
    [AssignUuids(1, Wire("journals", 1, 0)) EXCEPT
        !.target_record_key = TargetKey("journals", <<"journals", 1>>)]
FkArticle ==
    [AssignUuids(1, Wire("articles", 1, 1)) EXCEPT
        !.target_record_key = TargetKey("articles", <<"articles", 1>>)]
FkRole == AssignUuids(1, Wire("roles", 1, 2))
FkUser == AssignUuids(1, Wire("users", 2, 0))
FkChain == <<<<"journals", FkJournal>>, <<"articles", FkArticle>>>>

\* The directories of _search_for_fk's walk for the chain: the root, then one instance
\* directory per ancestor.
SearchedDirs(parents) ==
    [k \in 0..Len(parents) |-> SubSeq(ParentPathSegments(parents), 1, k)]

\* The related types looked for.
FkResources == {"users", "files"}

\* The type directories a workspace may have along the chain.
FkTypeDirs ==
    {<<SearchedDirs(FkChain)[k], r>> : k \in 0..Len(FkChain), r \in FkResources}

\* push_data at the visit of the role, on a workspace with any of the type directories along
\* the chain and the related user's detail at none or one of the places the walk may find,
\* empty, without or with a target_record_key.
InitFk ==
    \E r \in BOOLEAN, dirs \in SUBSET FkTypeDirs, k \in -1..1,
       kind \in {"blank", "nokey", "key"} :
      LET stamps == [NoMeta EXCEPT !["transaction_id"] = 1, !["initiated"] = 1,
                                   !["index_started"] = 2, !["index_finished"] = 3,
                                   !["fetch_started"] = 4, !["fetch_finished"] = 5,
                                   !["push_started"] = 6]
          jpath == BuildItemPath(<<>>, "journals", FkJournal)
          rpath == BuildItemPath(SubSeq(FkChain, 1, 1), "roles", FkRole)
          upath == <<SearchedDirs(FkChain)[IF k < 0 THEN 0 ELSE k], "users", FkUser.uuid>>
          user == IF kind = "blank" THEN BlankDetail
                  ELSE IF kind = "nokey" THEN DetailOf(FkUser)
                  ELSE DetailOf([FkUser EXCEPT
                                   !.target_record_key = TargetKey("users", <<"users", 2>>)])
          details == (jpath :> DetailOf(FkJournal)) @@ (rpath :> DetailOf(FkRole))
      IN  /\ k < 0 => kind = "blank"
          /\ k >= 0 => <<SearchedDirs(FkChain)[k], "users">> \in dirs
          /\ metadata_file = [exists |-> TRUE, data |-> stamps]
          /\ metadata = stamps
          /\ self_uuid = 1
          /\ resume = r
          /\ clock = 7
          /\ stage = "push"
          /\ call = "push_data"
          /\ result = "running"
          /\ worklist = <<ItemTask("roles", SubSeq(FkChain, 1, 1), FkRole)>>
          /\ tdirs = dirs \cup {BuildPath(<<>>, "journals"),
                                BuildPath(SubSeq(FkChain, 1, 1), "roles")}
          /\ idirs = {jpath, rpath} \cup (IF k < 0 THEN {} ELSE {upath})
          /\ index_files = (BuildPath(<<>>, "journals") :> IndexOf(<<FkJournal>>))
                           @@ (BuildPath(SubSeq(FkChain, 1, 1), "roles") :> IndexOf(<<FkRole>>))
          /\ detail_files = IF k < 0 THEN details ELSE WriteFile(details, upath, user)
          /\ binaries = {}
          /\ requests = <<>>
          /\ errors = 0
          /\ reported = 0
          /\ declined = FALSE
          /\ source_role_user = 2
          /\ source_journal_cover = FALSE
          /\ cli_flags = NoFlags
          /\ transfer_methods = <<>>

NextFk ==
    \/ \E post \in {"created", "noop", "fail"}, action \in {"continue", "abort"} :
         PushItem(post, action)
    \/ PushDataFinish

SpecFk == InitFk /\ [][NextFk]_vars

\* ------------------------------------ the push walker on a journal of two articles
\* The records of a source with one journal that has one role (of user 2) and two
\* articles, the first with one file.
WalkUser == AssignUuids(1, Wire("users", 2, 0))
WalkJournal == AssignUuids(1, Wire("journals", 1, 0))
WalkRole == AssignUuids(1, Wire("roles", 1, 2))
WalkArticle(k) == AssignUuids(1, Wire("articles", k, 1))
WalkFile == AssignUuids(1, WireFile(1, 0))
WalkArticles == {1, 2}

\* push_data on the workspace fetch_indexes and fetch_data leave for that source, when the
\* GET of the detail of any of the articles failed and the observer answered "continue":
\* the article's detail is not written and its children are not fetched.
InitWalk ==
    \E r \in BOOLEAN, missing \in SUBSET WalkArticles :
      LET stamps == [NoMeta EXCEPT !["transaction_id"] = 1, !["initiated"] = 1,
                                   !["index_started"] = 2, !["index_finished"] = 3,
                                   !["fetch_started"] = 4, !["fetch_finished"] = 5,
                                   !["push_started"] = 6]
          journal == <<<<"journals", WalkJournal>>>>
          under(k) == Append(journal, <<"articles", WalkArticle(k)>>)
          upath == BuildItemPath(<<>>, "users", WalkUser)
          jpath == BuildItemPath(<<>>, "journals", WalkJournal)
          rpath == BuildItemPath(journal, "roles", WalkRole)
          apath(k) == BuildItemPath(journal, "articles", WalkArticle(k))
          fpath == BuildItemPath(under(1), "files", WalkFile)
          fetched == (upath :> DetailOf(WalkUser)) @@ (jpath :> DetailOf(WalkJournal))
                     @@ (rpath :> DetailOf(WalkRole))
                     @@ [p \in {apath(k) : k \in WalkArticles \ missing} |->
                            DetailOf(CHOOSE a \in {WalkArticle(k) : k \in WalkArticles} :
                                        p[3] = a.uuid)]
      IN  /\ metadata_file = [exists |-> TRUE, data |-> stamps]
          /\ metadata = stamps
          /\ self_uuid = 1
          /\ resume = r
          /\ clock = 7
          /\ stage = "push"
          /\ call = "push_data"
          /\ result = "running"
          /\ worklist = TopLevelTasks
          /\ tdirs = {UsersDir, BuildPath(<<>>, "journals"), BuildPath(journal, "roles"),
                      BuildPath(journal, "articles")}
                     \cup {BuildPath(under(k), "files") : k \in WalkArticles}
          /\ idirs = {upath, jpath, rpath} \cup {apath(k) : k \in WalkArticles}
                     \cup (IF 1 \in missing THEN {} ELSE {fpath})
          /\ index_files =
                (UsersDir :> IndexOf(<<WalkUser>>))
                @@ (BuildPath(<<>>, "journals") :> IndexOf(<<WalkJournal>>))
                @@ (BuildPath(journal, "roles") :> IndexOf(<<WalkRole>>))
                @@ (BuildPath(journal, "articles") :>
                       IndexOf(<<WalkArticle(1), WalkArticle(2)>>))
                @@ (BuildPath(under(1), "files") :> IndexOf(<<WalkFile>>))
                @@ (BuildPath(under(2), "files") :> IndexOf(<<>>))
          /\ detail_files = IF 1 \in missing THEN fetched
                            ELSE WriteFile(fetched, fpath, DetailOf(WalkFile))
          /\ binaries = IF 1 \in missing THEN {} ELSE {fpath}
          /\ requests = <<>>
          /\ errors = 0
          /\ reported = 0
          /\ declined = FALSE
          /\ source_role_user = 2
          /\ source_journal_cover = FALSE
          /\ cli_flags = NoFlags
          /\ transfer_methods = <<>>

NextWalk ==
    \/ PushType
    \/ \E post \in {"created", "noop", "fail"}, action \in {"continue", "abort"} :
         PushItem(post, action)
    \/ PushDataFinish

SpecWalk == InitWalk /\ [][NextWalk]_vars

\* ------------------------------------ INDEX and FETCH of a journal with a cover
\* The source's journal carries a cover_file (and its roles refer to user 2).
InitLinked == InitOn(2, TRUE)

NextLinked ==
    \/ Construct
    \/ Interrupt
    \/ FetchIndexesBegin
    \/ FetchIndexesFinish
    \/ IndexMkdir
    \/ \E outcome \in {"skip", "ok", "fail"}, action \in {"continue", "abort"} :
         IndexType(outcome, action)
    \/ FetchDataBegin
    \/ FetchDataFinish
    \/ FetchType
    \/ \E get \in {"ok", "fail"}, fileget \in {"ok", "fail"}, userget \in {"ok", "fail"},
         action \in {"continue", "abort"} :
         FetchItem(get, fileget, userget, action)

SpecLinked == InitLinked /\ [][NextLinked]_vars

\* ------------------------------------------- the push of a file and its parent file
\* The two files of an article: a file and the file it is a revision of, with the primary
\* keys the source gave them.
FilesParent(pk) == AssignUuids(1, WireFile(pk, 0))
FilesChild(pk, parentpk) == AssignUuids(1, WireFile(pk, parentpk))

\* push_data at the visit of the files of a pushed article, after fetch_indexes and
\* fetch_data on a source whose file with the lower key is the parent or the child; any of
\* the two may have a target key from an earlier push_data.
InitFiles ==
    \E r \in BOOLEAN, childpk \in {1, 2}, pushed \in SUBSET {1, 2} :
      LET stamps == [NoMeta EXCEPT !["transaction_id"] = 1, !["initiated"] = 1,
                                   !["index_started"] = 2, !["index_finished"] = 3,
                                   !["fetch_started"] = 4, !["fetch_finished"] = 5,
                                   !["push_started"] = 6]
          parentpk == 3 - childpk
          index == SortedBySrk(<<FilesChild(childpk, parentpk), FilesParent(parentpk)>>)
          before(f) == IF f.source_record_key[2] \in pushed
                       THEN [f EXCEPT !.target_record_key = TargetKey("files", f.source_record_key)]
                       ELSE f
          fpath(f) == BuildItemPath(FkChain, "files", f)
          fdir == BuildPath(FkChain, "files")
      IN  /\ metadata_file = [exists |-> TRUE, data |-> stamps]
          /\ metadata = stamps
          /\ self_uuid = 1
          /\ resume = r
          /\ clock = 7
          /\ stage = "push"
          /\ call = "push_data"
          /\ result = "running"
          /\ worklist = <<TypeTask("files", FkChain)>>
          /\ tdirs = {BuildPath(<<>>, "journals"), BuildPath(SubSeq(FkChain, 1, 1), "articles"),
                      fdir}
          /\ idirs = {BuildItemPath(<<>>, "journals", FkJournal),
                      BuildItemPath(SubSeq(FkChain, 1, 1), "articles", FkArticle),
                      fpath(index[1]), fpath(index[2])}
          /\ index_files = (fdir :> IndexOf(index))
          /\ detail_files = (fpath(index[1]) :> DetailOf(before(index[1])))
                            @@ (fpath(index[2]) :> DetailOf(before(index[2])))
          /\ binaries = {fpath(index[1]), fpath(index[2])}
          /\ requests = <<>>
          /\ errors = 0
          /\ reported = 0
          /\ declined = FALSE
          /\ source_role_user = 2
          /\ source_journal_cover = FALSE
          /\ cli_flags = NoFlags
          /\ transfer_methods = <<>>

NextFiles ==
    \/ PushType
    \/ \E post \in {"created", "noop", "fail"}, action \in {"continue", "abort"} :
         PushItem(post, action)
    \/ PushDataFinish

SpecFiles == InitFiles /\ [][NextFiles]_vars

\* ----------------------------------- INDEX resumed after a kill inside _index_roles
\* The workspace of a fetch_indexes killed inside _index_roles, after _fetch_index wrote
\* the roles index of the journal: before users/ is made, before users/index.json is
\* touched, or before it is written.
KillPoints == {"mkdir", "touch", "write"}

InitKilled ==
    \E r \in BOOLEAN, u \in RoleUsers, at \in KillPoints :
      LET stamps == [NoMeta EXCEPT !["transaction_id"] = 1, !["initiated"] = 1,
                                   !["index_started"] = 2]
          journal == AssignUuids(1, Wire("journals", 1, 0))
          under == <<<<"journals", journal>>>>
          role == AssignUuids(1, Wire("roles", 1, u))
          indexes == (BuildPath(<<>>, "journals") :> IndexOf(<<journal>>))
                     @@ (BuildPath(under, "roles") :> IndexOf(<<role>>))
      IN  /\ metadata_file = [exists |-> TRUE, data |-> stamps]
          /\ metadata = stamps
          /\ self_uuid = 1
          /\ resume = r
          /\ clock = 3
          /\ stage = "idle"
          /\ call = "fetch_indexes"
          /\ result = "killed"
          /\ worklist = <<>>
          /\ tdirs = {BuildPath(<<>>, "journals"), BuildPath(under, "roles")}
                     \cup (IF at = "mkdir" THEN {} ELSE {UsersDir})
          /\ idirs = {BuildItemPath(<<>>, "journals", journal)}
          /\ index_files = IF at = "write" THEN WriteFile(indexes, UsersDir, BlankIndex)
                           ELSE indexes
          /\ detail_files = <<>>
          /\ binaries = {}
          /\ requests = <<>>
          /\ errors = 1
          /\ reported = 0
          /\ declined = FALSE
          /\ source_role_user = u
          /\ source_journal_cover = FALSE
          /\ cli_flags = NoFlags
          /\ transfer_methods = <<>>

NextKilled ==
    \/ Construct
    \/ FetchIndexesBegin
    \/ FetchIndexesFinish
    \/ IndexMkdir
    \/ \E outcome \in {"skip", "ok", "fail"}, action \in {"continue", "abort"} :
         IndexType(outcome, action)

SpecKilled == InitKilled /\ [][NextKilled]_vars

\* ================================================================ claims
meta == metadata_file.data
Has(key) == meta[key] # 0

\* A stage operation is called in this step.
Called(api) == /\ stage = "idle"
               /\ call' = api
               /\ <<call, result>>' # <<call, result>>

Refused == /\ result' = "AssertionError"
           /\ requests' = <<>>
           /\ UNCHANGED <<metadata_file, metadata, stage, worklist, workspace>>

\* C1: fetch_data called while the metadata lacks index_finished is refused with the
\* assertion error, and so is push_data while the metadata lacks fetch_finished: nothing is
\* written to the metadata or the workspace and no request is issued; fetch_indexes is
\* never refused.
C1_StageGating ==
    [][ /\ (Called("fetch_data") /\ ~Has("index_finished")) => Refused
        /\ (Called("push_data") /\ ~Has("fetch_finished")) => Refused
        /\ Called("fetch_indexes") => result' # "AssertionError" ]_vars

\* push_data has just been refused on a workspace where INDEX has finished and FETCH has not.
C1_Witness ==
    /\ call = "push_data"
    /\ result = "AssertionError"
    /\ Has("index_finished")
    /\ ~Has("fetch_finished")

\* C2: in every state of the run metadata, a stage's finished key comes with its started
\* key, and for FETCH and PUSH with the previous stage's finished key (for PUSH both under
\* the key push_finished and under the key push_data writes, pushfinished).
C2_FinishedImpliesStarted ==
    /\ Has("index_finished") => Has("index_started")
    /\ Has("fetch_finished") => Has("fetch_started") /\ Has("index_finished")
    /\ Has("push_finished") => Has("push_started") /\ Has("fetch_finished")
    /\ Has("pushfinished") => Has("push_started") /\ Has("fetch_finished")

\* FETCH has finished, a later stage operation was aborted and the workspace was re-opened.
C2_Witness ==
    /\ Has("fetch_finished")
    /\ result = "AbortError"
    /\ call = "__init__"

\* C3: when a stage operation has returned normally the metadata has the stage's started
\* and finished keys; after push_data, push_finished is set and is_push_finished() is true.
C3_ReturnedBracketed ==
    /\ (call = "fetch_indexes" /\ result = "returned")
          => Has("index_started") /\ Has("index_finished")
    /\ (call = "fetch_data" /\ result = "returned")
          => Has("fetch_started") /\ Has("fetch_finished")
    /\ (call = "push_data" /\ result = "returned")
          => Has("push_started") /\ Has("push_finished") /\ is_push_finished

\* The metadata keys of the stage a stage operation runs.
StartedKey(api) == CASE api = "fetch_indexes" -> "index_started"
                     [] api = "fetch_data" -> "fetch_started"
                     [] api = "push_data" -> "push_started"
FinishedKey(api) == CASE api = "fetch_indexes" -> "index_finished"
                      [] api = "fetch_data" -> "fetch_finished"
                      [] api = "push_data" -> "push_finished"

\* C4: when a stage operation has ended by an error or an observer abort, the metadata has
\* the stage's started key and not its finished key, whatever happened on the workspace
\* before.
C4_FailedStageUnfinished ==
    \A api \in {"fetch_indexes", "fetch_data", "push_data"} :
        (call = api /\ result \in {"AbortError", "Error"})
            => Has(StartedKey(api)) /\ ~Has(FinishedKey(api))

\* C5: whenever fetch_finished is set, index_finished <= fetch_started <= fetch_finished.
C5_TimestampsNonDecreasing ==
    Has("fetch_finished") =>
        /\ meta["index_finished"] <= meta["fetch_started"]
        /\ meta["fetch_started"] <= meta["fetch_finished"]

\* C6: the metadata file holds one transaction_id from its creation on, the coordinator's
\* namespace is that value after every construction and every step, and so a key has the
\* same uuid in every run on the workspace.
C6_NamespaceFixed ==
    [][ /\ metadata_file'.data["transaction_id"] = metadata_file.data["transaction_id"]
        /\ self_uuid' = metadata_file.data["transaction_id"]
        /\ \A t \in {"users", "journals", "roles", "articles"} :
              Uuid5(self_uuid', <<t, 1>>) = Uuid5(self_uuid, <<t, 1>>) ]_vars

\* The coordinator was constructed again on a workspace that already holds fetched data.
C6_Witness ==
    /\ call = "__init__"
    /\ Has("fetch_finished")
    /\ detail_files # <<>>
    /\ self_uuid = meta["transaction_id"]

\* The records of the workspace: the elements of every index.json and every detail file.
IndexRecords ==
    UNION {{index_files[p].list[i] : i \in DOMAIN index_files[p].list} : p \in DOMAIN index_files}
DetailRecords ==
    {detail_files[k].rec : k \in {q \in DOMAIN detail_files : ~detail_files[q].blank}}

\* C7: every record in an index.json or a detail file has the uuid
\* uuid5(transaction_id, source_record_key), and so has every reference nested in it.
C7_RecordsCarryUuid ==
    \A r \in IndexRecords \cup DetailRecords :
        /\ r.uuid = Uuid5(meta["transaction_id"], r.source_record_key)
        /\ r.fk # NoRef => r.fk.uuid = Uuid5(meta["transaction_id"], r.fk.source_record_key)

\* Every handler has written: the roles handler the users index, the FETCH postprocessor a
\* user's detail and index entry, and PUSH a record with a resolved reference.
C7_Witness ==
    /\ UsersDir \in DOMAIN index_files
    /\ Len(index_files[UsersDir].list) = 2
    /\ UserDir(Uuid5(self_uuid, <<"users", 1>>)) \in DOMAIN detail_files
    /\ ~detail_files[UserDir(Uuid5(self_uuid, <<"users", 1>>))].blank
    /\ \E r \in DetailRecords : r.target_record_key # NoKey /\ r.fk.target_record_key # NoKey

\* C8: the entries of every index.json are in non-decreasing order of source_record_key.
C8_IndexSorted ==
    \A p \in DOMAIN index_files :
        \A i \in 1..(Len(index_files[p].list) - 1) :
            ~KeyLess(index_files[p].list[i + 1].source_record_key,
                     index_files[p].list[i].source_record_key)

\* C9: the uuid of every instance directory, and of the directory of every detail file, is
\* the uuid of an entry of the index.json of its type directory.
C9_LayoutCorrespondence ==
    \A d \in idirs \cup DOMAIN detail_files :
        /\ <<d[1], d[2]>> \in DOMAIN index_files
        /\ \E i \in DOMAIN index_files[<<d[1], d[2]>>].list :
              index_files[<<d[1], d[2]>>].list[i].uuid = d[3]

\* This step is a push of the item of detail file k that the target answered with a key.
PushedNow(k) ==
    /\ stage = "push"
    /\ worklist # <<>>
    /\ Head(worklist).kind = "item"
    /\ BuildItemPath(Head(worklist).parents, Head(worklist).type, Head(worklist).stub) = k
    /\ \E i \in DOMAIN requests' :
          /\ requests'[i].method = "POST"
          /\ requests'[i].type = Head(worklist).type
          /\ requests'[i].key = detail_files[k].rec.source_record_key
    /\ detail_files'[k].rec.target_record_key # NoKey

\* C10: a detail file that has a target_record_key keeps it in every step that is not a
\* successful push of that record.
C10_TargetKeyKept ==
    [][ \A k \in DOMAIN detail_files :
          (~detail_files[k].blank /\ detail_files[k].rec.target_record_key # NoKey)
            => \/ /\ k \in DOMAIN detail_files'
                  /\ detail_files'[k].rec.target_record_key
                       = detail_files[k].rec.target_record_key
               \/ PushedNow(k) ]_vars

\* The users index lists a user of this uuid.
UserIndexed(uuid) ==
    /\ UsersDir \in DOMAIN index_files
    /\ \E i \in DOMAIN index_files[UsersDir].list : index_files[UsersDir].list[i].uuid = uuid

\* C11: whenever the detail file users/<uuid>/user.json exists (created or written), the
\* user of that uuid is listed in users/index.json.
C11_UserIndexedBeforeDetail ==
    \A k \in DOMAIN detail_files : (k[1] = <<>> /\ k[2] = "users") => UserIndexed(k[3])

\* The requests issued in this step.
NewRequests == {requests'[i] : i \in DOMAIN requests'}

\* This step is the walker's visit of a node in the stage, and the node's index.json exists
\* and parses to a non-empty value.
VisitsIndexedType(s) ==
    /\ stage = s
    /\ worklist # <<>>
    /\ Head(worklist).kind = "type"
    /\ LET path == BuildPath(Head(worklist).parents, Head(worklist).type)
       IN  IF path \in DOMAIN index_files
           THEN ~index_files[path].blank /\ index_files[path].list # <<>>
           ELSE FALSE

\* C12: a run of fetch_indexes issues no GET for a type whose index.json exists and parses
\* to a non-empty value, and leaves every index.json as it is, whatever the options of the
\* coordinator.
C12_IndexIdempotent ==
    [][ VisitsIndexedType("index") => (NewRequests = {} /\ index_files' = index_files) ]_vars

\* This step is the walker's visit of an item in the stage, and the item's detail file
\* exists and is not empty.
VisitsFetchedItem(s) ==
    /\ stage = s
    /\ worklist # <<>>
    /\ Head(worklist).kind = "item"
    /\ LET k == BuildItemPath(Head(worklist).parents, Head(worklist).type, Head(worklist).stub)
       IN  IF k \in DOMAIN detail_files THEN ~detail_files[k].blank ELSE FALSE

HeadItemPath == BuildItemPath(Head(worklist).parents, Head(worklist).type, Head(worklist).stub)
HeadItemGet == Get(Head(worklist).type, Head(worklist).stub.source_record_key)

\* C13: when fetch_data visits an item whose detail file exists and is not empty, it issues
\* no GET for the item and leaves the detail file as it is.
C13_FetchSkipsFetched ==
    [][ VisitsFetchedItem("fetch")
          => /\ HeadItemGet \notin NewRequests
             /\ detail_files'[HeadItemPath] = detail_files[HeadItemPath] ]_vars

\* Every item listed in an index.json has a detail file that is not empty.
EveryIndexedItemFetched ==
    \A p \in DOMAIN index_files :
        \A i \in DOMAIN index_files[p].list :
            LET k == <<p[1], p[2], index_files[p].list[i].uuid>>
            IN  IF k \in DOMAIN detail_files THEN ~detail_files[k].blank ELSE FALSE

\* C14: when fetch_data has returned and every request of the run was answered, every
\* indexed item has a non-empty detail file and fetch_finished is set, whatever an earlier
\* interrupted or failed run of fetch_data left on the workspace.
C14_FetchCompletesRemainder ==
    (call = "fetch_data" /\ result = "returned" /\ reported = 0)
        => (EveryIndexedItemFetched /\ Has("fetch_finished"))

\* This step is the walker's visit of an item in the stage.
VisitsItem(s) == stage = s /\ worklist # <<>> /\ Head(worklist).kind = "item"

\* The POSTs of this step that the target answered 2xx with a source_record_key.
CreatedNow == {r \in NewRequests : IF r.method = "POST" THEN r.ok /\ r.response # NoKey ELSE FALSE}

C16_PushAtMostOnce ==
    [][ (VisitsFetchedItem("push") /\ detail_files[HeadItemPath].rec.target_record_key # NoKey)
          => \A r \in NewRequests : r.method # "POST" ]_vars

\* C17: the payload POSTed for an item of a node with foreign keys carries, in its
\* reference, the target_record_key of the related user whenever that user's detail file
\* exists and has one.
C17_ForeignKeyRewritten ==
    [][ (VisitsItem("push") /\ HasUserFk(Head(worklist).type)) =>
          \A r \in NewRequests :
              IF r.method = "POST" /\ r.data.fk # NoRef
                 /\ UserDir(r.data.fk.uuid) \in DOMAIN detail_files
              THEN LET user == detail_files[UserDir(r.data.fk.uuid)]
                   IN  (~user.blank /\ user.rec.target_record_key # NoKey)
                          => r.data.fk.target_record_key = user.rec.target_record_key
              ELSE TRUE ]_vars

\* An article was just POSTed with the target key of its creator in the payload.
C17_Witness ==
    /\ stage = "push"
    /\ requests # <<>>
    /\ requests[1].method = "POST"
    /\ requests[1].type = "articles"
    /\ requests[1].data.fk.source_record_key = <<"users", 1>>
    /\ requests[1].data.fk.target_record_key = TargetKey("users", <<"users", 1>>)

\* C18: when push_data has returned, no request of the behaviour has failed and the target
\* answered every POST of the run with a source_record_key, every item listed in an
\* index.json has a detail file that holds a target_record_key.
C18_AllItemsPushed ==
    (call = "push_data" /\ result = "returned" /\ errors = 0 /\ ~declined) =>
        \A p \in DOMAIN index_files :
            \A i \in DOMAIN index_files[p].list :
                LET k == <<p[1], p[2], index_files[p].list[i].uuid>>
                IN  IF k \in DOMAIN detail_files
                    THEN ~detail_files[k].blank
                         /\ detail_files[k].rec.target_record_key # NoKey
                    ELSE FALSE

\* C19: when fetch_data has returned and no request of the behaviour has failed, every
\* item listed in an index.json has its detail file in the workspace.
C19_AllItemsHaveDetail ==
    (call = "fetch_data" /\ result = "returned" /\ errors = 0) =>
        \A p \in DOMAIN index_files :
            \A i \in DOMAIN index_files[p].list :
                <<p[1], p[2], index_files[p].list[i].uuid>> \in DOMAIN detail_files

RECURSIVE IndexTreeComplete(_, _)
\* The type t under the parent chain has its directory and a written index.json and, when it has
\* children, every stub of the index has its directory and each child type is complete below.
IndexTreeComplete(t, parents) ==
    LET path == BuildPath(parents, t)
    IN  /\ path \in tdirs
        /\ path \in DOMAIN index_files
        /\ ~index_files[path].blank
        /\ Children(t) # <<>> =>
              \A i \in DOMAIN index_files[path].list :
                  LET stub == index_files[path].list[i]
                  IN  /\ BuildItemPath(parents, t, stub) \in idirs
                      /\ \A c \in DOMAIN Children(t) :
                            IndexTreeComplete(Children(t)[c], Append(parents, <<t, stub>>))

\* C20: when fetch_indexes has returned without a reported error, every index-enabled
\* top-level type has its index.json and the tree of directories and indexes below every
\* stub is complete.
C20_IndexTreeComplete ==
    (call = "fetch_indexes" /\ result = "returned" /\ reported = 0) =>
        \A i \in DOMAIN TopLevel :
            ~IndexDisabled(TopLevel[i]) => IndexTreeComplete(TopLevel[i], <<>>)

\* fetch_indexes has returned without error and the journal has its roles and articles indexes.
C20_Witness ==
    /\ call = "fetch_indexes"
    /\ result = "returned"
    /\ reported = 0
    /\ \E p \in DOMAIN index_files : p[2] = "articles" /\ index_files[p].list # <<>>
    /\ \E p \in DOMAIN index_files : p[2] = "roles" /\ index_files[p].list # <<>>

\* push_data passes its gate in this step.
PushPermitted == stage = "idle" /\ stage' = "push"

\* C21: push_data is permitted only when the last fetch_indexes started has finished and a
\* fetch_data has finished after it (every stamp is a later reading of the clock than the
\* stamps written before it).
C21_ReindexClosesPushGate ==
    [][ PushPermitted =>
          /\ meta["index_started"] < meta["index_finished"]
          /\ meta["index_finished"] < meta["fetch_finished"] ]_vars

\* The stage operations the coordinator exposes.
Operations == {"fetch_indexes", "fetch_data", "push_data"}

\* The operations the options select, in the order INDEX, FETCH, PUSH.
Selected(f) ==
    IF f.index_only THEN <<"fetch_indexes">>
    ELSE IF f.fetch_only THEN <<"fetch_indexes", "fetch_data">>
    ELSE IF f.push_only THEN <<"push_data">>
    ELSE <<"fetch_indexes", "fetch_data", "push_data">>

\* The transfer command has passed the check of its options in this step.
TransferAccepted == call' = "__init__" /\ result' = "none" /\ ~TooManyFlags(cli_flags')

\* C22: the transfer command calls the stage operations its options select, in the order
\* INDEX, FETCH, PUSH (--index-only: fetch_indexes; --fetch-only: fetch_indexes, fetch_data;
\* --push-only: push_data; none: all three), and every name it calls is an operation of the
\* coordinator.
C22_TransferRunsSelectedStages ==
    [][ /\ TransferAccepted => transfer_methods' = Selected(cli_flags')
        /\ \A i \in DOMAIN transfer_methods' : transfer_methods'[i] \in Operations
        /\ (stage = "idle" /\ stage' # "idle")
              => (transfer_methods # <<>> /\ call' = Head(transfer_methods)) ]_vars

\* A request of this step failed (the step used the budget of the failures, and was neither
\* the kill of the process nor a POST answered 2xx).
RequestFailed ==
    /\ errors' = errors + 1
    /\ result' # "killed"
    /\ \A r \in NewRequests : r.method = "POST" => ~r.ok

\* The observer answered continue: the stage goes on and keeps the items still to visit.
Continued == /\ stage' = stage
             /\ result' = result
             /\ Len(worklist') >= Len(worklist) - 1

\* The observer answered abort: AbortError ends the stage operation.
Aborted == /\ stage' = "idle"
           /\ result' = "AbortError"
           /\ worklist' = <<>>

\* C23: the work of one item reports a failure to the observer exactly once; after continue
\* the walker goes on with the items that remain and a stage operation that returns has
\* written <stage>_finished; after abort AbortError ends the stage operation and no
\* request is issued until an operation is called again.
C23_PerItemErrorProtocol ==
    /\ [][ stage # "idle" =>
             /\ RequestFailed => reported' = reported + 1
             /\ reported' \in {reported, reported + 1}
             /\ reported' = reported + 1 => (Continued \/ Aborted) ]_vars
    /\ [][ stage = "idle" => requests' = <<>> ]_vars
    /\ [](\A api \in {"fetch_indexes", "fetch_data", "push_data"} :
            (call = api /\ result = "returned" /\ reported > 0) => Has(FinishedKey(api)))

\* The reference of the item being pushed and the place the resolver finds for it.
HeadReference == detail_files[HeadItemPath].rec.fk
HeadReferencePath ==
    SearchForFk(tdirs, Head(worklist).parents, "users", HeadReference.uuid, <<>>)

\* push_data visits an item of a node with foreign keys whose detail holds a reference, and
\* nothing else stands in the way of its POST: every parent has its target key, and the item
\* is not one the resume option skips.
PushesReference ==
    /\ VisitsFetchedItem("push")
    /\ HasUserFk(Head(worklist).type)
    /\ HeadReference # NoRef
    /\ \A i \in DOMAIN Head(worklist).parents :
          Head(worklist).parents[i][2].target_record_key # NoKey
    /\ ~(resume /\ detail_files[HeadItemPath].rec.target_record_key # NoKey)

\* The related record cannot be located: no directory of the related type at the root or
\* under an ancestor, or no detail file at the place found.
Unlocatable == HeadReferencePath \notin DOMAIN detail_files

VisitsEmptyIndex(s) ==
    /\ stage = s
    /\ result' # "killed"
    /\ worklist # <<>>
    /\ Head(worklist).kind = "type"
    /\ LET path == BuildPath(Head(worklist).parents, Head(worklist).type)
       IN  IF path \in DOMAIN index_files
           THEN index_files[path].blank \/ index_files[path].list = <<>>
           ELSE TRUE

\* C25: when fetch_data or push_data reaches a type whose index.json is missing, empty or an
\* empty list, the stage operation does not raise and reports nothing: it goes on without
\* visiting an item of that type.
C25_EmptyIndexNotFatal ==
    [][ (VisitsEmptyIndex("fetch") \/ VisitsEmptyIndex("push")) =>
          /\ stage' = stage
          /\ result' = "running"
          /\ reported' = reported
          /\ requests' = <<>>
          /\ \E n \in 0..Len(worklist) : worklist' = SubSeq(worklist, n + 1, Len(worklist)) ]_vars

\* C26: when a type's index is empty at FETCH or PUSH time, the types declared after it at
\* the same level are still visited: the walker goes on with everything it had to visit
\* after that type.
C26_EmptyIndexKeepsSiblings ==
    [][ ((VisitsEmptyIndex("fetch") \/ VisitsEmptyIndex("push")) /\ stage' = stage) =>
          worklist' = Tail(worklist) ]_vars

\* The files and directories of the node users: its directory and index, and the
\* directories and details of its items.
UsersFiles ==
    <<UsersDir \in tdirs,
      IF UsersDir \in DOMAIN index_files THEN <<index_files[UsersDir]>> ELSE <<>>,
      {d \in idirs : d[2] = "users"},
      [d \in {e \in DOMAIN detail_files : e[2] = "users"} |-> detail_files[d]]>>

\* INDEX visits (the process is not killed) the node users, whose index configuration is
\* False.
VisitsUsersInIndex ==
    /\ stage = "index"
    /\ result' # "killed"
    /\ worklist # <<>>
    /\ Head(worklist).kind = "type"
    /\ Head(worklist).type = "users"

\* The visit does nothing: no request, nothing written, nothing reported, and the walker
\* goes on with what follows the node.
Skipped ==
    /\ requests' = <<>>
    /\ UNCHANGED workspace
    /\ reported' = reported
    /\ worklist' = Tail(worklist)
    /\ stage' = stage

Recurses ==
    /\ worklist' # <<>>
    /\ Head(worklist').kind = "type"
    /\ Len(Head(worklist').parents) = Len(Head(worklist).parents) + 1

\* The result the walker recurses with in this step is one the item's handler returned: the
\* record the children get as their parent is the item's.
HandlerReturned ==
    LET parent == Head(worklist').parents[Len(Head(worklist').parents)]
    IN  /\ parent[1] = Head(worklist).type
        /\ parent[2].uuid = Head(worklist).stub.uuid

\* The place of a type among the children of the type above it.
Place(t, above) == CHOOSE i \in DOMAIN Children(above) : Children(above)[i] = t

\* The child types declared before the head item's type have no task left under the same
\* parent, and those declared after it are still to be visited.
InDeclaredOrder ==
    LET task == Head(worklist)
        above == task.parents[Len(task.parents)][1]
        same == {i \in DOMAIN worklist : worklist[i].parents = task.parents}
    IN  task.parents # <<>> =>
          \A j \in DOMAIN Children(above) :
             /\ j < Place(task.type, above) =>
                   \A i \in same : worklist[i].type # Children(above)[j]
             /\ j > Place(task.type, above) =>
                   \E i \in same : /\ worklist[i].type = Children(above)[j]
                                   /\ worklist[i].kind = "type"

\* C28: at the visit of an item the step's requests are the item's own and none is for a
\* child type; the walker recurses into the children only when the item's handler returned
\* a non-empty result; and the child types are visited in their declared order (under one
\* journal, every role before every article).
C28_TraversalOrder ==
    [][ ((VisitsItem("fetch") \/ VisitsItem("push")) /\ result' # "killed") =>
          /\ \A r \in NewRequests :
                \A i \in DOMAIN Children(Head(worklist).type) :
                   r.type # Children(Head(worklist).type)[i]
          /\ Recurses => HandlerReturned
          /\ InDeclaredOrder ]_vars

\* The prefixes of the chain the resolver is asked about: no ancestor, the journal, the
\* journal and the article.
FkChains == {SubSeq(FkChain, 1, n) : n \in 0..Len(FkChain)}

\* The places, in the order of the walk (0 the root, k the instance directory of the k-th
\* ancestor), whose directory has an immediate subdirectory named R.
PlacesWith(P, R) == {k \in 0..Len(P) : <<SearchedDirs(P)[k], R>> \in tdirs}

\* C29: for a parent chain P, a related type R and a uuid U, when the root or the instance
\* directory of an ancestor has a subdirectory named R, the resolver returns
\* <dir>/R/U/<singular(R)>.json for the shallowest such directory dir, after one step for
\* the root and one for each ancestor before dir: at most |P|+1 steps.
C29_ResolverResult ==
    \A P \in FkChains, R \in FkResources, U \in {FkUser.uuid, FkRole.uuid} :
       PlacesWith(P, R) # {} =>
          LET k == CHOOSE i \in PlacesWith(P, R) : \A j \in PlacesWith(P, R) : i <= j
          IN  /\ SearchForFk(tdirs, P, R, U, <<>>) = <<SearchedDirs(P)[k], R, U>>
              /\ SearchSteps(tdirs, P, R, <<>>) = k + 1
              /\ SearchSteps(tdirs, P, R, <<>>) <= Len(P) + 1

\* The role has been pushed on a workspace whose only users directory along the chain is
\* the journal's: the resolver passed the root and found the user's detail, with its
\* target key, under the journal.
C29_Witness ==
    /\ call = "push_data"
    /\ PlacesWith(SubSeq(FkChain, 1, 1), "users") = {1}
    /\ \E p \in DOMAIN detail_files :
          /\ p[2] = "roles"
          /\ ~detail_files[p].blank
          /\ detail_files[p].rec.fk.target_record_key = TargetKey("users", <<"users", 2>>)

\* PUSH visits an item, and the target answers its POST 2xx without a source_record_key.
DeclinedNow ==
    /\ VisitsItem("push")
    /\ \E r \in NewRequests : r.method = "POST" /\ r.ok /\ r.response = NoKey

\* A detail but for the target key in its reference, which the preprocessor resolves
\* before the handler loads the file.
ButReference(d) == [d EXCEPT !.rec.fk.target_record_key = NoKey]

\* A task but for the result of the stub before it, which the walker carries along.
ButPrevious(task) == [task EXCEPT !.prev = NoRec]

\* The walker's tasks after this step end with all those that followed the item.
GoesOnWithTheRest ==
    /\ Len(worklist') >= Len(worklist) - 1
    /\ LET skip == Len(worklist') - (Len(worklist) - 1)
       IN  \A i \in 1..(Len(worklist) - 1) :
              ButPrevious(worklist'[skip + i]) = ButPrevious(worklist[i + 1])

\* C30: when the target answers an item's POST 2xx without a source_record_key, the item's
\* detail file is as the handler loaded it and no target_record_key is written, no file
\* appears or disappears, report_error is not called, and the walker continues with the
\* items and types that followed.
C30_DeclinedPushIsNoop ==
    [][ DeclinedNow =>
          /\ DOMAIN detail_files' = DOMAIN detail_files
          /\ \A p \in DOMAIN detail_files :
                IF p = HeadItemPath
                THEN /\ ButReference(detail_files'[p]) = ButReference(detail_files[p])
                     /\ detail_files'[p].rec.target_record_key
                           = detail_files[p].rec.target_record_key
                ELSE detail_files'[p] = detail_files[p]
          /\ reported' = reported
          /\ stage' = "push"
          /\ result' = "running"
          /\ GoesOnWithTheRest ]_vars

\* The target has declined the file that has a parent file, and the walk is still running:
\* the file's detail holds neither a target key nor its parent's.
C30_Witness ==
    /\ stage = "push"
    /\ result = "running"
    /\ declined
    /\ reported = 0
    /\ requests # <<>>
    /\ requests[1].method = "POST"
    /\ requests[1].ok
    /\ requests[1].response = NoKey
    /\ requests[1].key = <<"files", 2>>
    /\ \E p \in DOMAIN detail_files :
          /\ detail_files[p].rec.source_record_key = <<"files", 2>>
          /\ detail_files[p].rec.target_record_key = NoKey
          /\ detail_files[p].rec.parent_target_record_key = NoKey

\* The path a POST for a resource under the parent chain has to go to: for each ancestor
\* in order its type name and the last segment of its target_record_key, then the type.
TargetPath(parents, type) ==
    <<[i \in DOMAIN parents |-> <<parents[i][1], parents[i][2].target_record_key[2]>>], type>>

FetchedWithLinkedFile ==
    /\ VisitsItem("fetch")
    /\ result' # "killed"
    /\ reported' = reported
    /\ HeadItemPath \in DOMAIN detail_files'
    /\ ~detail_files'[HeadItemPath].blank
    /\ detail_files'[HeadItemPath].rec.cover_file # ""

\* C32: after the fetch of an item whose detail has a field cover_file with a url, the
\* binary is in the item's directory and the detail file on disk has cover_file_filename,
\* the name of the downloaded file.
C32_LinkedFilesFetched ==
    [][ FetchedWithLinkedFile =>
          /\ \E b \in binaries' : Len(b) = 4 /\ SubSeq(b, 1, 3) = HeadItemPath
          /\ detail_files'[HeadItemPath].rec.cover_file_filename # ""
          /\ LinkedFile(HeadItemPath, detail_files'[HeadItemPath].rec.cover_file_filename)
                \in binaries' ]_vars

\* INDEX visits the roles of a journal and the roles index handler runs without an error.
RolesIndexed ==
    /\ stage = "index"
    /\ worklist # <<>>
    /\ Head(worklist).kind = "type"
    /\ Head(worklist).type = "roles"
    /\ requests' # <<>>
    /\ reported' = reported
    /\ result' # "killed"

\* The user keys in the users index of a workspace's index files.
UserKeysIn(files) ==
    IF UsersDir \in DOMAIN files
    THEN {files[UsersDir].list[i].source_record_key : i \in DOMAIN files[UsersDir].list}
    ELSE {}

\* The user keys of the nested user objects of the roles index the step has written.
RoleUserKeys ==
    LET roles == index_files'[BuildPath(Head(worklist).parents, "roles")].list
    IN  {roles[i].fk.source_record_key : i \in {j \in DOMAIN roles : roles[j].fk # NoRef}}

\* C33: after the roles index handler has run, users/index.json has exactly one entry for
\* each user key that was in it before or is the key of a user object of the fetched roles
\* index, no other entry, and every entry's uuid is uuid5(transaction_id, key).
C33_RoleUsersMerged ==
    [][ RolesIndexed =>
          /\ UsersDir \in DOMAIN index_files'
          /\ ~index_files'[UsersDir].blank
          /\ UserKeysIn(index_files') = UserKeysIn(index_files) \cup RoleUserKeys
          /\ Len(index_files'[UsersDir].list) = Cardinality(UserKeysIn(index_files'))
          /\ \A i \in DOMAIN index_files'[UsersDir].list :
                index_files'[UsersDir].list[i].uuid
                   = Uuid5(meta'["transaction_id"], index_files'[UsersDir].list[i].source_record_key) ]_vars

\* The roles have just been indexed again on a workspace whose users index had the
\* article's creator, added by FETCH: the index has the creator and the roles' user.
C33_Witness ==
    /\ stage = "index"
    /\ requests = <<Get("roles", NoKey)>>
    /\ reported = 0
    /\ UserKeysIn(index_files) = {<<"users", 1>>, <<"users", 2>>}
    /\ Len(index_files[UsersDir].list) = 2

\* FETCH completes, without an error, the visit of an item of a node with a foreign key to
\* users, and the default postprocessor has run on the item's detail, which refers to a
\* user.
PostprocessedUserFk ==
    /\ VisitsItem("fetch")
    /\ result' # "killed"
    /\ reported' = reported
    /\ HasUserFk(Head(worklist).type)
    /\ HeadItemPath \in DOMAIN detail_files'
    /\ ~detail_files'[HeadItemPath].blank
    /\ detail_files'[HeadItemPath].rec.fk # NoRef

\* C34: after the default fetch postprocessor has run for a detail with a foreign key to
\* users, the referenced user has a workspace directory with a non-empty user.json and an
\* entry in users/index.json.
C34_UserFksEnsured ==
    [][ PostprocessedUserFk =>
          LET user == detail_files'[HeadItemPath].rec.fk
          IN  /\ UserDir(user.uuid) \in idirs'
              /\ UserDir(user.uuid) \in DOMAIN detail_files'
              /\ ~detail_files'[UserDir(user.uuid)].blank
              /\ user.source_record_key \in UserKeysIn(index_files') ]_vars

\* C35: when a file whose metadata has parent_source_record_key is pushed in a push_data in
\* which nothing has failed or been declined, the POSTed payload has
\* parent_target_record_key, the key the target assigned to the parent file, whichever of
\* the two files comes first in the files index.
C35_FilePushCarriesParentKey ==
    [][ (VisitsItem("push") /\ reported = 0 /\ ~declined) =>
          \A r \in NewRequests :
             (r.method = "POST" /\ r.data.parent_source_record_key # NoKey) =>
                r.data.parent_target_record_key
                   = TargetKey("files", r.data.parent_source_record_key) ]_vars

\* The JSON values __assign_uuids is applied to: the resources the source sends, with and
\* without a nested user object, the same without a source_record_key of their own, and
\* the same with a uuid left by another assignment.
UuidInputs ==
    LET wired == {Wire(t, pk, u) : t \in {"journals", "roles", "articles"}, pk \in 1..2,
                                   u \in 0..2}
                 \cup {WireFile(pk, parent) : pk \in 1..2, parent \in 0..2}
        keyless == {[d EXCEPT !.source_record_key = NoKey] : d \in wired}
        stale == {[d EXCEPT !.uuid = Uuid5(0, <<"users", 1>>),
                            !.fk = IF d.fk = NoRef THEN NoRef
                                   ELSE [d.fk EXCEPT !.uuid = Uuid5(0, <<"users", 1>>)]] :
                     d \in wired \cup keyless}
    IN  wired \cup keyless \cup stale

\* C36: __assign_uuids puts uuid = uuid5(namespace, source_record_key) into every object
\* that carries a source_record_key, the nested ones and the entries of a list included,
\* changes nothing else, and a second application changes nothing.
C36_AssignUuidsTotalIdempotent ==
    \A d \in UuidInputs :
       LET a == AssignUuids(self_uuid, d)
           l == AssignUuidsList(self_uuid, <<d, d>>)
       IN  /\ d.source_record_key # NoKey => a.uuid = Uuid5(self_uuid, d.source_record_key)
           /\ d.source_record_key = NoKey => a.uuid = d.uuid
           /\ d.fk.source_record_key # NoKey
                 => a.fk.uuid = Uuid5(self_uuid, d.fk.source_record_key)
           /\ d.fk.source_record_key = NoKey => a.fk = d.fk
           /\ [a EXCEPT !.uuid = d.uuid, !.fk.uuid = d.fk.uuid] = d
           /\ AssignUuids(self_uuid, a) = a
           /\ l = <<a, a>>
           /\ AssignUuidsList(self_uuid, l) = l

\* The roles index has been written in the run's namespace: the role and the user object
\* nested in it both carry their uuid.
C36_Witness ==
    \E p \in DOMAIN index_files :
       /\ requests = <<Get("roles", NoKey)>>
       /\ p[2] = "roles"
       /\ index_files[p].list # <<>>
       /\ index_files[p].list[1].uuid = Uuid5(self_uuid, <<"roles", 1>>)
       /\ index_files[p].list[1].fk.uuid = Uuid5(self_uuid, <<"users", 2>>)

\* C37: while a stage operation is between its started write and its finished write,
\* current_stage() is that stage, also in a re-run of the stage, and when no stage
\* operation is in progress (here: the last one returned) it is none.
C37_CurrentStageInProgress ==
    /\ stage # "idle" => current_stage = stage
    /\ (stage = "idle" /\ result = "returned") => current_stage = "none"

\* C38: during PUSH the walker goes into the children of an item only with the item's own
\* record in the parent chain, never with that of a sibling processed before it, and, in
\* the first push_data of a workspace, no item is POSTed that the target has already given
\* a key in the run: no item's children are pushed twice.
C38_ChildrenUnderOwnParent ==
    [][ (VisitsItem("push") /\ result' # "killed") =>
          /\ Recurses =>
                /\ Head(worklist').parents[Len(Head(worklist').parents)][2].source_record_key
                      = Head(worklist).stub.source_record_key
                /\ \A r \in NewRequests : r.method = "POST" => r.key = Head(worklist).stub.source_record_key
          /\ ~Has("pushfinished") =>
                \A r \in NewRequests :
                   r.method = "POST" =>
                      detail_files[HeadItemPath].rec.target_record_key = NoKey ]_vars

\* The user keys of the nested user objects of every roles index on disk.
RoleUserKeysOnDisk ==
    UNION {{index_files[p].list[i].fk.source_record_key :
              i \in {j \in DOMAIN index_files[p].list : index_files[p].list[j].fk # NoRef}} :
           p \in {q \in DOMAIN index_files : q[2] = "roles"}}

\* C39: when fetch_indexes, run with resume on a workspace an INDEX run was killed on, has
\* returned without reporting an error, every user key of a nested user object of a roles
\* index on disk is in users/index.json.
C39_ResumedIndexRestoresUsers ==
    (call = "fetch_indexes" /\ result = "returned" /\ resume /\ reported = 0)
       => RoleUserKeysOnDisk \subseteq UserKeysIn(index_files)
====
